---- MODULE Spec2Model ----
(***************************************************************************)
(* Knowledge_parser: fetch Google Docs / Sheets, convert them to Markdown, *)
(* clean the Markdown with the regular-expression pipeline of utils.py and *)
(* write the original and the cleaned copy to disk.                        *)
(*                                                                         *)
(* A text is a sequence of Unicode code points (Python str).  The regular  *)
(* expressions of config.py and utils.py are written as lists of nodes and *)
(* matched by a backtracking matcher that follows Python's re module:      *)
(* leftmost match, alternatives and repetitions tried in priority order.   *)
(***************************************************************************)
EXTENDS Integers, Sequences, FiniteSets, TLC

VARIABLES
    \* ---- the batch entry points (parse_google_doc.main / parse_google_sheet.main)
    kind,               \* "doc" (parse_google_doc) or "sheet" (parse_google_sheet)
    document_ids,       \* main's ordered list of identifiers
    cleaning_level,     \* main's cleaning_level argument
    save_original,      \* main's save_original argument
    pos,                \* index in document_ids of the item being processed
    pc,                 \* position inside main / parse_doc
    service,            \* parse_doc: result of authenticate_docs()
    document,           \* parse_doc: result of get_document()
    title,              \* parse_doc: title
    content,            \* parse_doc: content
    original_content,   \* parse_doc: original_content
    clean_content,      \* parse_doc: clean_content
    stats,              \* parse_doc: stats  (also get_cleaning_stats' result)
    filename,           \* parse_doc: filename
    results,            \* main: results
    dirs,               \* filesystem: the directories that exist
    files,              \* filesystem: per directory, filename -> file
    exc,                \* the exception that left main, or "none"
    outcome,            \* history: how each processed item ended
    \* ---- apply_cleaning and the pure functions of utils.py
    text,               \* apply_cleaning: the text argument
    level,              \* apply_cleaning: the cleaning_level argument
    functions_to_apply, \* apply_cleaning: functions_to_apply
    fidx,               \* apply_cleaning: index of the for loop
    clean_text,         \* apply_cleaning: clean_text
    cpc,                \* position inside apply_cleaning
    placeholder,        \* standardize_placeholders: the placeholder the text holds
    table,              \* clean_empty_tables / process_table: the cells of the table
    blocks              \* gdoc_to_markdown: the blocks the document body holds

batchVars == <<kind, document_ids, cleaning_level, save_original, pos, pc, service,
               document, title, content, original_content, clean_content,
               filename, results, dirs, files, exc, outcome>>
cleanVars == <<text, level, functions_to_apply, fidx, clean_text, cpc, placeholder,
              table, blocks>>
vars == <<batchVars, cleanVars, stats>>

(***************************************************************************)
(* Characters                                                              *)
(***************************************************************************)
\* Python's \s for str patterns (str.isspace)
WHITESPACE == {9, 10, 11, 12, 13, 28, 29, 30, 31, 32, 133, 160, 5760}
                \cup (8192..8202) \cup {8232, 8233, 8239, 8287, 12288}

\* Python's \w, for the scripts the texts are written in (ASCII, Russian)
WORDCHARS == (48..57) \cup (65..90) \cup {95} \cup (97..122)
                \cup (1040..1103) \cup {1025, 1105}

\* str.lower() of one character, ASCII and Russian
Lower(c) ==
    IF c \in 65..90 \/ c \in 1040..1071 THEN c + 32
    ELSE IF c = 1025 THEN 1105
    ELSE c

\* str.upper() of one character, ASCII and Russian
Upper(c) ==
    IF c \in 97..122 \/ c \in 1072..1103 THEN c - 32
    ELSE IF c = 1105 THEN 1025
    ELSE c

(***************************************************************************)
(* Regular expressions: a pattern is a sequence of nodes                   *)
(***************************************************************************)
\* re flags
NOFLAGS == [m |-> FALSE, s |-> FALSE, i |-> FALSE]
MULTILINE == [m |-> TRUE, s |-> FALSE, i |-> FALSE]
MULTILINE_DOTALL == [m |-> TRUE, s |-> TRUE, i |-> FALSE]
MULTILINE_IGNORECASE == [m |-> TRUE, s |-> FALSE, i |-> TRUE]

Lit(s) == [k |-> "lit", s |-> s]                    \* literal characters
In(cs) == [k |-> "set", neg |-> FALSE, cs |-> cs]   \* [...] , \s
NotIn(cs) == [k |-> "set", neg |-> TRUE, cs |-> cs] \* [^...] , \S
Dot == [k |-> "dot"]                                \* .
\* c{min,max} over a one-character class; max = -1 is unbounded
Rep(c, min, max, greedy) == [k |-> "rep", c |-> c, min |-> min, max |-> max, greedy |-> greedy]
Star(c) == Rep(c, 0, -1, TRUE)                      \* c*
Plus(c) == Rep(c, 1, -1, TRUE)                      \* c+
LazyStar(c) == Rep(c, 0, -1, FALSE)                 \* c*?
Opt(p) == [k |-> "opt", p |-> p]                    \* (?:p)?
PlusGroup(p) == [k |-> "plusgroup", p |-> p]        \* (?:p)+
StarGroup(p) == [k |-> "stargroup", p |-> p]        \* (?:p)*
Alt(ps) == [k |-> "alt", ps |-> ps]                 \* (?:p1|p2|...)
Look(ps) == [k |-> "look", ps |-> ps]               \* (?=p1|p2|...)
Bol == [k |-> "bol"]                                \* ^
Eol == [k |-> "eol"]                                \* $
EndZ == [k |-> "endz"]                              \* \Z
WordB == [k |-> "wordb"]                            \* \b
Open == [k |-> "open"]                              \* ( of group 1
Close == [k |-> "close"]                            \* ) of group 1

NoMatch == [ok |-> FALSE, e |-> 0, gs |-> 0, ge |-> 0]

\* does character c belong to the one-character class cls under the flags
InClass(cls, c, fl) ==
    IF cls.k = "dot" THEN fl.s \/ c # 10
    ELSE LET hit == \/ c \in cls.cs
                    \/ fl.i /\ (Lower(c) \in cls.cs \/ Upper(c) \in cls.cs)
         IN  IF cls.neg THEN ~hit ELSE hit

\* does literal s occur in t at position i
LitAt(s, t, i, fl) ==
    /\ i + Len(s) - 1 <= Len(t)
    /\ \A j \in 1..Len(s) :
          IF fl.i THEN Lower(t[i + j - 1]) = Lower(s[j]) ELSE t[i + j - 1] = s[j]

\* number of consecutive characters of class cls from position i, at most max
Run(cls, t, i, fl, max) ==
    LET stops == {j \in i..Len(t) : ~InClass(cls, t[j], fl)}
        r == IF stops = {} THEN Len(t) + 1 - i
             ELSE (CHOOSE j \in stops : \A k \in stops : j <= k) - i
    IN  IF max >= 0 /\ r > max THEN max ELSE r

IsWordAt(t, i) == i >= 1 /\ i <= Len(t) /\ t[i] \in WORDCHARS

\* backtracking: the first attempt when it matched, otherwise the next one
OrElse(m, other) == IF m.ok THEN m ELSE other

\* the least and the greatest element of a non-empty set of positions
Least(S) == CHOOSE j \in S : \A k \in S : j <= k
Greatest(S) == CHOOSE j \in S : \A k \in S : k <= j

RECURSIVE Match(_, _, _, _, _, _)
RECURSIVE TryRep(_, _, _, _, _, _, _, _, _)
RECURSIVE TryAlt(_, _, _, _, _, _, _, _)
RECURSIVE TryRepIn(_, _, _, _, _, _, _, _)

\* Match the node list p at position i of t (the match is anchored at i).
\* Result: [ok, e, gs, ge]: e is the position after the match, gs..ge-1 is
\* group 1.  The first success in backtracking order is returned.
Match(p, t, i, fl, gs, ge) ==
    IF p = <<>> THEN [ok |-> TRUE, e |-> i, gs |-> gs, ge |-> ge]
    ELSE
    LET n == Head(p)
        rest == Tail(p)
    IN CASE n.k = "lit" ->
              IF LitAt(n.s, t, i, fl) THEN Match(rest, t, i + Len(n.s), fl, gs, ge)
              ELSE NoMatch
         [] n.k \in {"set", "dot"} ->
              IF i <= Len(t) /\ InClass(n, t[i], fl) THEN Match(rest, t, i + 1, fl, gs, ge)
              ELSE NoMatch
         [] n.k = "rep" ->
              LET r == Run(n.c, t, i, fl, n.max)
              IN  IF r < n.min THEN NoMatch
                  ELSE TryRep(rest, t, i, fl, gs, ge, n.min, r, n.greedy)
         [] n.k = "opt" ->
              OrElse(Match(n.p \o rest, t, i, fl, gs, ge), Match(rest, t, i, fl, gs, ge))
         [] n.k = "plusgroup" ->
              Match(n.p \o <<StarGroup(n.p)>> \o rest, t, i, fl, gs, ge)
         [] n.k = "stargroup" ->
              OrElse(Match(n.p \o <<n>> \o rest, t, i, fl, gs, ge),
                     Match(rest, t, i, fl, gs, ge))
         [] n.k = "alt" -> TryAlt(n.ps, rest, t, i, fl, gs, ge, 1)
         [] n.k = "look" ->
              IF TryAlt(n.ps, <<>>, t, i, fl, gs, ge, 1).ok
              THEN Match(rest, t, i, fl, gs, ge)
              ELSE NoMatch
         [] n.k = "bol" ->
              IF i = 1 \/ (fl.m /\ t[i - 1] = 10) THEN Match(rest, t, i, fl, gs, ge)
              ELSE NoMatch
         [] n.k = "eol" ->
              IF \/ i = Len(t) + 1
                 \/ i = Len(t) /\ t[i] = 10
                 \/ fl.m /\ i <= Len(t) /\ t[i] = 10
              THEN Match(rest, t, i, fl, gs, ge)
              ELSE NoMatch
         [] n.k = "endz" ->
              IF i = Len(t) + 1 THEN Match(rest, t, i, fl, gs, ge) ELSE NoMatch
         [] n.k = "wordb" ->
              IF IsWordAt(t, i - 1) # IsWordAt(t, i) THEN Match(rest, t, i, fl, gs, ge)
              ELSE NoMatch
         [] n.k = "open" -> Match(rest, t, i, fl, i, ge)
         [] n.k = "close" -> Match(rest, t, i, fl, gs, i)

\* a repetition that may take min..max characters: the largest count (greedy)
\* or the smallest (lazy) after which the rest of the pattern matches
TryRep(rest, t, i, fl, gs, ge, min, max, greedy) ==
    TryRepIn(rest, t, i, fl, gs, ge, greedy,
             {c \in min..max : Match(rest, t, i + c, fl, gs, ge).ok})

\* good: the counts after which the rest of the pattern matches
TryRepIn(rest, t, i, fl, gs, ge, greedy, good) ==
    IF good = {} THEN NoMatch
    ELSE Match(rest, t, i + (IF greedy THEN Greatest(good) ELSE Least(good)), fl, gs, ge)

\* the first alternative, from the b-th on, after which the rest matches
TryAlt(ps, rest, t, i, fl, gs, ge, b) ==
    IF b > Len(ps) THEN NoMatch
    ELSE OrElse(Match(ps[b] \o rest, t, i, fl, gs, ge),
                TryAlt(ps, rest, t, i, fl, gs, ge, b + 1))

NotFound == [ok |-> FALSE, s |-> 0, e |-> 0, gs |-> 0, ge |-> 0]

Found(s, m) == [ok |-> TRUE, s |-> s, e |-> m.e, gs |-> m.gs, ge |-> m.ge]

\* starts: the positions at which the pattern matches
SearchIn(p, t, fl, starts) ==
    IF starts = {} THEN NotFound
    ELSE Found(Least(starts), Match(p, t, Least(starts), fl, 0, 0))

\* re.search(pattern, t, pos): the leftmost match starting at pos or later,
\* as [ok, s, e, gs, ge]
Search(p, t, i, fl) ==
    SearchIn(p, t, fl, {j \in i..Len(t) + 1 : Match(p, t, j, fl, 0, 0).ok})

Slice(t, a, b) == IF b < a THEN <<>> ELSE SubSeq(t, a, b)

\* the replacement template: pre, then group 1 when grp, then post
Template(repl, t, m) ==
    repl.pre \o (IF repl.grp THEN Slice(t, m.gs, m.ge - 1) ELSE <<>>) \o repl.post

EMPTY == [pre |-> <<>>, grp |-> FALSE, post |-> <<>>]      \* ''

\* re.sub(pattern, repl, t, flags=fl) from position i on: non-overlapping
\* matches left to right; after an empty match the next character is copied
RECURSIVE SubFrom(_, _, _, _, _)
RECURSIVE SubAt(_, _, _, _, _, _)
SubFrom(p, repl, t, fl, i) == SubAt(p, repl, t, fl, i, Search(p, t, i, fl))

\* m: the leftmost match at or after i
SubAt(p, repl, t, fl, i, m) ==
    IF ~m.ok THEN Slice(t, i, Len(t))
    ELSE IF m.e > m.s
         THEN Slice(t, i, m.s - 1) \o Template(repl, t, m) \o SubFrom(p, repl, t, fl, m.e)
    ELSE IF m.s > Len(t) THEN Slice(t, i, Len(t)) \o Template(repl, t, m)
    ELSE Slice(t, i, m.s) \o Template(repl, t, m) \o SubFrom(p, repl, t, fl, m.s + 1)

\* Python evaluates the argument before the call: the text is computed here,
\* before the matcher runs on it
re_sub(p, repl, t, fl) == IF Len(t) >= 0 THEN SubFrom(p, repl, t, fl, 1) ELSE t

\* len(re.findall(pattern, t)) from position i on
RECURSIVE CountFrom(_, _, _, _)
RECURSIVE CountAt(_, _, _, _)
CountFrom(p, t, fl, i) == CountAt(p, t, fl, Search(p, t, i, fl))

\* m: the leftmost match at or after the position counted from
CountAt(p, t, fl, m) ==
    IF ~m.ok THEN 0
    ELSE IF m.e > m.s THEN 1 + CountFrom(p, t, fl, m.e)
    ELSE IF m.s > Len(t) THEN 1
    ELSE 1 + CountFrom(p, t, fl, m.s + 1)

re_findall_len(p, t) == IF Len(t) >= 0 THEN CountFrom(p, t, NOFLAGS, 1) ELSE 0

(***************************************************************************)
(* config.py: the pattern registry                                         *)
(***************************************************************************)
SPACE == In(WHITESPACE)            \* \s
NONSPACE == NotIn(WHITESPACE)      \* \S
ANYCHAR == NotIn({})               \* [\s\S]
RU_LOWER == In(1072..1103)         \* [а-я]
NL == Lit(<<10>>)                  \* \n

METADATA_PATTERNS == <<
    \* r"Конфиденциально\s*"
    <<Lit(<<1050, 1086, 1085, 1092, 1080, 1076, 1077, 1085, 1094, 1080, 1072, 1083, 1100, 1085, 1086>>), Star(SPACE)>>,
    \* r"Автор:.*"
    <<Lit(<<1040, 1074, 1090, 1086, 1088, 58>>), Star(Dot)>>,
    \* r"Для кого предназначено:.*"
    <<Lit(<<1044, 1083, 1103, 32, 1082, 1086, 1075, 1086, 32, 1087, 1088, 1077, 1076, 1085, 1072, 1079, 1085, 1072, 1095, 1077, 1085, 1086, 58>>), Star(Dot)>>,
    \* r"Дата издания:.*"
    <<Lit(<<1044, 1072, 1090, 1072, 32, 1080, 1079, 1076, 1072, 1085, 1080, 1103, 58>>), Star(Dot)>>,
    \* r"Версия:.*"
    <<Lit(<<1042, 1077, 1088, 1089, 1080, 1103, 58>>), Star(Dot)>> >>

\* r"Термины:[\s\S]*?(?=\n\s*\n\S|\Z)"
TERMS_SECTION_PATTERN ==
    <<Lit(<<1058, 1077, 1088, 1084, 1080, 1085, 1099, 58>>), LazyStar(ANYCHAR),
      Look(<< <<NL, Star(SPACE), NL, NONSPACE>>, <<EndZ>> >>)>>

TECHNICAL_INTRO_PATTERNS == <<
    \* r"Причина создания:.*?(?=\n\s*\n)"
    <<Lit(<<1055, 1088, 1080, 1095, 1080, 1085, 1072, 32, 1089, 1086, 1079, 1076, 1072, 1085, 1080, 1103, 58>>), LazyStar(Dot), Look(<< <<NL, Star(SPACE), NL>> >>)>>,
    \* r"Задача:.*?(?=\n\s*\n)"
    <<Lit(<<1047, 1072, 1076, 1072, 1095, 1072, 58>>), LazyStar(Dot), Look(<< <<NL, Star(SPACE), NL>> >>)>> >>

CRM_REFERENCE_PATTERNS == <<
    \* r"Б24|B24|Битрикс24"
    <<Alt(<< <<Lit(<<1041, 50, 52>>)>>, <<Lit(<<66, 50, 52>>)>>, <<Lit(<<1041, 1080, 1090, 1088, 1080, 1082, 1089, 50, 52>>)>> >>)>>,
    \* r"карточк[а-я]+ сделки"
    <<Lit(<<1082, 1072, 1088, 1090, 1086, 1095, 1082>>), Plus(RU_LOWER), Lit(<<32, 1089, 1076, 1077, 1083, 1082, 1080>>)>>,
    \* r"этап[а-я]* \"[^\"]+\""
    <<Lit(<<1101, 1090, 1072, 1087>>), Star(RU_LOWER), Lit(<<32, 34>>), Plus(NotIn({34})), Lit(<<34>>)>>,
    \* r"сделк[а-я]+ в этап"
    <<Lit(<<1089, 1076, 1077, 1083, 1082>>), Plus(RU_LOWER), Lit(<<32, 1074, 32, 1101, 1090, 1072, 1087>>)>> >>

LINK_PATTERNS == <<
    \* r"https?://(?:www\.)?(?:docs\.google\.com|t\.me|bit\.ly|goo\.gl)[^\s)]+"
    <<Lit(<<104, 116, 116, 112>>), Opt(<<Lit(<<115>>)>>), Lit(<<58, 47, 47>>), Opt(<<Lit(<<119, 119, 119, 46>>)>>),
      Alt(<< <<Lit(<<100, 111, 99, 115, 46, 103, 111, 111, 103, 108, 101, 46, 99, 111, 109>>)>>, <<Lit(<<116, 46, 109, 101>>)>>,
             <<Lit(<<98, 105, 116, 46, 108, 121>>)>>, <<Lit(<<103, 111, 111, 46, 103, 108>>)>> >>),
      Plus(NotIn(WHITESPACE \cup {41}))>>,
    \* r"\bhttps?://\S+"
    <<WordB, Lit(<<104, 116, 116, 112>>), Opt(<<Lit(<<115>>)>>), Lit(<<58, 47, 47>>), Plus(NONSPACE)>> >>

INTERNAL_INSTRUCTION_PATTERNS == <<
    \* r"\[см\. [^\]]+\]"
    <<Lit(<<91, 1089, 1084, 46, 32>>), Plus(NotIn({93})), Lit(<<93>>)>>,
    \* r"\[Пояснение для [^\]]+\]"
    <<Lit(<<91, 1055, 1086, 1103, 1089, 1085, 1077, 1085, 1080, 1077, 32, 1076, 1083, 1103, 32>>), Plus(NotIn({93})), Lit(<<93>>)>>,
    \* r"\[ДЕЙСТВИЯ В Б24[^\]]*\]"
    <<Lit(<<91, 1044, 1045, 1049, 1057, 1058, 1042, 1048, 1071, 32, 1042, 32, 1041, 50, 52>>), Star(NotIn({93})), Lit(<<93>>)>>,
    \* r"Смотреть таблицу.*"
    <<Lit(<<1057, 1084, 1086, 1090, 1088, 1077, 1090, 1100, 32, 1090, 1072, 1073, 1083, 1080, 1094, 1091>>), Star(Dot)>>,
    \* r"ВНИМАНИЕ!.*?(?=\n)"
    <<Lit(<<1042, 1053, 1048, 1052, 1040, 1053, 1048, 1045, 33>>), LazyStar(Dot), Look(<< <<NL>> >>)>> >>

\* "leadgen_{}.md"
FILENAME_TEMPLATE(slug) == <<108, 101, 97, 100, 103, 101, 110, 95>> \o slug \o <<46, 109, 100>>

\* levels that are not nested: medium drops the terms category of low
CleaningLevelsUnnested == [
    low |-> <<"metadata", "terms">>,
    medium |-> <<"metadata", "technical_intro", "links">>,
    high |-> <<"metadata", "terms", "technical_intro", "links", "crm_references",
               "internal_instructions", "empty_tables">> ]

CLEANING_LEVELS == [
    low |-> <<"metadata", "terms">>,
    medium |-> <<"metadata", "terms", "technical_intro", "links">>,
    high |-> <<"metadata", "terms", "technical_intro", "links", "crm_references",
               "internal_instructions", "empty_tables">> ]

EMPTY_TABLE_THRESHOLD == 70

(***************************************************************************)
(* utils.py: the cleaning functions                                        *)
(***************************************************************************)
\* for pattern in patterns: text = re.sub(pattern, '', text, flags=fl)
RECURSIVE SubEach(_, _, _, _)
SubEach(patterns, t, fl, k) ==
    IF k > Len(patterns) THEN t
    ELSE SubEach(patterns, re_sub(patterns[k], EMPTY, t, fl), fl, k + 1)

clean_metadata(t) == SubEach(METADATA_PATTERNS, t, MULTILINE, 1)

remove_terms_section(t) == re_sub(TERMS_SECTION_PATTERN, EMPTY, t, MULTILINE)

clean_technical_intros(t) == SubEach(TECHNICAL_INTRO_PATTERNS, t, MULTILINE_DOTALL, 1)

clean_crm_references(t) == SubEach(CRM_REFERENCE_PATTERNS, t, MULTILINE_IGNORECASE, 1)

clean_links(t) == SubEach(LINK_PATTERNS, t, MULTILINE, 1)

clean_internal_instructions(t) ==
    SubEach(INTERNAL_INSTRUCTION_PATTERNS, t, MULTILINE_DOTALL, 1)

\* r'\n\|[^\n]+\|\n\|[\s-]+\|\n(?:\|[^\n]+\|\n)+'
table_pattern ==
    <<Lit(<<10, 124>>), Plus(NotIn({10})), Lit(<<124, 10, 124>>), Plus(In(WHITESPACE \cup {45})),
      Lit(<<124, 10>>), PlusGroup(<<Lit(<<124>>), Plus(NotIn({10})), Lit(<<124, 10>>)>>)>>

\* empty_percent = (empty_cells / total_cells) * 100; > EMPTY_TABLE_THRESHOLD
EmptyDecision(total_cells, empty_cells) ==
    IF total_cells = 0 THEN TRUE
    ELSE empty_cells * 100 > EMPTY_TABLE_THRESHOLD * total_cells

\* is_empty_table: total_cells counts r'\|[^|]+\|', empty_cells counts r'\|\s*\|'
is_empty_table(table_text) ==
    EmptyDecision(
        re_findall_len(<<Lit(<<124>>), Plus(NotIn({124})), Lit(<<124>>)>>, table_text),
        re_findall_len(<<Lit(<<124>>), Star(SPACE), Lit(<<124>>)>>, table_text))

\* re.sub(table_pattern, lambda m: '' if is_empty_table(m) else m.group(0), text)
RECURSIVE SubTablesFrom(_, _)
RECURSIVE SubTablesAt(_, _, _)
SubTablesFrom(t, i) == SubTablesAt(t, i, Search(table_pattern, t, i, NOFLAGS))

\* m: the leftmost table at or after i
SubTablesAt(t, i, m) ==
    IF ~m.ok THEN Slice(t, i, Len(t))
    ELSE Slice(t, i, m.s - 1)
         \o (IF is_empty_table(Slice(t, m.s, m.e - 1)) THEN <<>>
             ELSE Slice(t, m.s, m.e - 1))
         \o SubTablesFrom(t, m.e)

clean_empty_tables(t) == IF Len(t) >= 0 THEN SubTablesFrom(t, 1) ELSE t

\* r'{{{\1}}}'
TRIPLE_BRACE == [pre |-> <<123, 123, 123>>, grp |-> TRUE, post |-> <<125, 125, 125>>]

\* re.sub(r'__([^_]+)__', r'{{{\1}}}', text)
StandardizeDouble(t) ==
    re_sub(<<Lit(<<95, 95>>), Open, Plus(NotIn({95})), Close, Lit(<<95, 95>>)>>,
           TRIPLE_BRACE, t, NOFLAGS)

\* re.sub(r'___(.*?)___', r'{{{\1}}}', text)
StandardizeTriple(t) ==
    re_sub(<<Lit(<<95, 95, 95>>), Open, LazyStar(Dot), Close, Lit(<<95, 95, 95>>)>>,
           TRIPLE_BRACE, t, NOFLAGS)

\* re.sub(r'\[ВСТАВКА:\s*([^\]]+)\]', r'{{{\1}}}', text)
StandardizeBracket(t) ==
    re_sub(<<Lit(<<91, 1042, 1057, 1058, 1040, 1042, 1050, 1040, 58>>), Star(SPACE),
             Open, Plus(NotIn({93})), Close, Lit(<<93>>)>>,
           TRIPLE_BRACE, t, NOFLAGS)

standardize_placeholders(t) ==
    StandardizeBracket(StandardizeTriple(StandardizeDouble(t)))

\* text.replace('\xa0', ' ')
ReplaceNbsp(t) ==
    IF t = <<>> THEN <<>> ELSE [j \in 1..Len(t) |-> IF t[j] = 160 THEN 32 ELSE t[j]]

clean_formatting_artifacts(t) ==
    LET \* re.sub(r'\n{3,}', '\n\n', text)
        t1 == re_sub(<<Rep(In({10}), 3, -1, TRUE)>>,
                     [pre |-> <<10, 10>>, grp |-> FALSE, post |-> <<>>], t, NOFLAGS)
        \* re.sub(r'^\s+', '', text)
        t2 == re_sub(<<Bol, Plus(SPACE)>>, EMPTY, t1, NOFLAGS)
        \* re.sub(r'\s+$', '', text)
        t3 == re_sub(<<Plus(SPACE), Eol>>, EMPTY, t2, NOFLAGS)
        \* re.sub(r' {2,}', ' ', text)
        t4 == re_sub(<<Rep(In({32}), 2, -1, TRUE)>>,
                     [pre |-> <<32>>, grp |-> FALSE, post |-> <<>>], t3, NOFLAGS)
    IN  ReplaceNbsp(t4)

\* the keys of the cleaning_functions dict
CLEANING_FUNCTION_NAMES ==
    {"metadata", "terms", "technical_intro", "links", "crm_references",
     "internal_instructions", "empty_tables"}

\* cleaning_functions[func_name](t)
cleaning_functions(func_name, t) ==
    CASE func_name = "metadata" -> clean_metadata(t)
      [] func_name = "terms" -> remove_terms_section(t)
      [] func_name = "technical_intro" -> clean_technical_intros(t)
      [] func_name = "links" -> clean_links(t)
      [] func_name = "crm_references" -> clean_crm_references(t)
      [] func_name = "internal_instructions" -> clean_internal_instructions(t)
      [] func_name = "empty_tables" -> clean_empty_tables(t)

\* a faulty lookup: an unknown level falls back to low
LevelFunctionsLow(lv) ==
    IF lv \in DOMAIN CLEANING_LEVELS THEN CLEANING_LEVELS[lv] ELSE CLEANING_LEVELS["low"]

\* CLEANING_LEVELS.get(cleaning_level, CLEANING_LEVELS["medium"])
LevelFunctions(lv) ==
    IF lv \in DOMAIN CLEANING_LEVELS THEN CLEANING_LEVELS[lv] ELSE CLEANING_LEVELS["medium"]

\* a faulty iteration: the links category is passed over
ApplyOneWithoutLinks(func_name, t) ==
    IF func_name \in CLEANING_FUNCTION_NAMES \ {"links"}
    THEN cleaning_functions(func_name, t) ELSE t

\* one iteration of: for func_name in functions_to_apply: if func_name in ...
ApplyOne(func_name, t) ==
    IF func_name \in CLEANING_FUNCTION_NAMES THEN cleaning_functions(func_name, t) ELSE t

RECURSIVE ApplyFrom(_, _, _)
ApplyFrom(names, t, k) ==
    IF k > Len(names) THEN t ELSE ApplyFrom(names, ApplyOne(names[k], t), k + 1)

apply_cleaning(t, lv) ==
    clean_formatting_artifacts(standardize_placeholders(ApplyFrom(LevelFunctions(lv), t, 1)))

\* f"# {title}\n\n{content}", and its cleaned version
format_as_markdown(ti, co, lv) ==
    LET markdown_content == <<35, 32>> \o ti \o <<10, 10>> \o co
    IN  <<markdown_content, apply_cleaning(markdown_content, lv)>>

\* a faulty rounding: the digits after the second decimal are cut off
TruncateHundredths(num, den) == (num * 10000) \div den

\* original_len, cleaned_len, removed_chars, removed_percent of get_cleaning_stats;
\* removed_percent is held in hundredths: round(x, 2) keeps two decimals.
\* round() rounds to the nearest hundredth.  A tie needs original_len to be a
\* multiple of 32, longer than the texts drawn here; it goes to the even one.
RoundHundredths(num, den) ==
    LET a == IF num < 0 THEN -num ELSE num
        q == (a * 10000) \div den
        r == (a * 10000) % den
        h == IF 2 * r > den \/ (2 * r = den /\ q % 2 = 1) THEN q + 1 ELSE q
    IN  IF num < 0 THEN -h ELSE h

get_cleaning_stats(original_text, cleaned_text) ==
    LET original_len == Len(original_text)
        cleaned_len == Len(cleaned_text)
        removed_chars == original_len - cleaned_len
        removed_percent == IF original_len > 0
                           THEN RoundHundredths(removed_chars, original_len)
                           ELSE 0
    IN  [original_size |-> original_len,
         cleaned_size |-> cleaned_len,
         removed_chars |-> removed_chars,
         removed_percent |-> removed_percent]

(***************************************************************************)
(* parse_google_doc.py, parse_google_sheet.py: conversion to Markdown      *)
(***************************************************************************)
NONE == "none"

\* 'Untitled Document'
UNTITLED == <<85, 110, 116, 105, 116, 108, 101, 100, 32, 68, 111, 99, 117, 109, 101, 110, 116>>

\* "*Пустой лист*"
EMPTY_SHEET == <<42, 1055, 1091, 1089, 1090, 1086, 1081, 32, 1083, 1080, 1089, 1090, 42>>

\* dict.get(key, default)
Get(d, key, default) == IF key \in DOMAIN d THEN d[key] ELSE default

\* str.lstrip(): only the leading whitespace goes
StripLeading(t) ==
    LET keep == {j \in 1..Len(t) : t[j] \notin WHITESPACE}
    IN  IF keep = {} THEN <<>> ELSE Slice(t, Least(keep), Len(t))

\* str.strip()
Strip(t) ==
    LET keep == {j \in 1..Len(t) : t[j] \notin WHITESPACE}
    IN  IF keep = {} THEN <<>> ELSE Slice(t, Least(keep), Greatest(keep))

\* sep.join(parts)
RECURSIVE JoinFrom(_, _, _)
JoinFrom(sep, parts, k) ==
    IF k > Len(parts) THEN <<>>
    ELSE (IF k > 1 THEN sep ELSE <<>>) \o parts[k] \o JoinFrom(sep, parts, k + 1)

Join(sep, parts) == JoinFrom(sep, parts, 1)

\* "| " + " | ".join(cells) + " |\n"
TableLine(cells) == <<124, 32>> \o Join(<<32, 124, 32>>, cells) \o <<32, 124, 10>>

\* "| " + " | ".join(["---"] * n) + " |\n"
SeparatorLine(n) == TableLine([c \in 1..n |-> <<45, 45, 45>>])

\* the text of the textRun elements, in order
RECURSIVE ParagraphFrom(_, _)
ParagraphFrom(elements, k) ==
    IF k > Len(elements) THEN <<>>
    ELSE (IF "textRun" \in DOMAIN elements[k]
          THEN Get(elements[k].textRun, "content", <<>>) ELSE <<>>)
         \o ParagraphFrom(elements, k + 1)

process_paragraph(paragraph) == ParagraphFrom(Get(paragraph, "elements", <<>>), 1)

\* cell_content: the paragraphs of one table cell
RECURSIVE CellFrom(_, _)
CellFrom(cell_items, k) ==
    IF k > Len(cell_items) THEN <<>>
    ELSE (IF "paragraph" \in DOMAIN cell_items[k]
          THEN process_paragraph(cell_items[k].paragraph) ELSE <<>>)
         \o CellFrom(cell_items, k + 1)

\* row_content: the stripped cell texts of one row
RowContent(cells) ==
    [c \in 1..Len(cells) |-> Strip(CellFrom(Get(cells[c], "content", <<>>), 1))]

RECURSIVE TableFrom(_, _)
TableFrom(table_rows, i) ==
    IF i > Len(table_rows) THEN <<>>
    ELSE TableLine(RowContent(Get(table_rows[i], "tableCells", <<>>)))
         \o (IF i = 1 THEN SeparatorLine(Len(Get(table_rows[i], "tableCells", <<>>)))
             ELSE <<>>)
         \o TableFrom(table_rows, i + 1)

process_table(tbl) == TableFrom(Get(tbl, "tableRows", <<>>), 1)

\* document.get('title', 'Untitled Document')
extract_document_title(doc) ==
    Get(doc, "title", UNTITLED)

\* a prefix one "#" short: heading level n written with n hashes
HeadingPrefixShifted(style) ==
    CASE style = "HEADING_1" -> <<35, 32>>
      [] style = "HEADING_2" -> <<35, 35, 32>>
      [] style = "HEADING_3" -> <<35, 35, 35, 32>>
      [] OTHER -> <<>>

\* the prefix a namedStyleType puts before the paragraph text
HeadingPrefix(style) ==
    CASE style = "HEADING_1" -> <<35, 35, 32>>
      [] style = "HEADING_2" -> <<35, 35, 35, 32>>
      [] style = "HEADING_3" -> <<35, 35, 35, 35, 32>>
      [] OTHER -> <<>>

\* what one item of body.content adds to content
ItemMarkdown(item) ==
    IF "paragraph" \in DOMAIN item
    THEN HeadingPrefix(Get(Get(item.paragraph, "paragraphStyle", <<>>),
                           "namedStyleType", NONE))
         \o process_paragraph(item.paragraph) \o <<10, 10>>
    ELSE IF "table" \in DOMAIN item THEN process_table(item.table) \o <<10, 10>>
    ELSE <<>>

RECURSIVE BodyFrom(_, _)
BodyFrom(items, k) ==
    IF k > Len(items) THEN <<>> ELSE ItemMarkdown(items[k]) \o BodyFrom(items, k + 1)

\* (title, content)
gdoc_to_markdown(doc) ==
    <<extract_document_title(doc),
      BodyFrom(Get(Get(doc, "body", <<>>), "content", <<>>), 1)>>

\* sheet.title
extract_sheet_title(sheet) == sheet.title

RECURSIVE RowsFrom(_, _)
RowsFrom(values, k) ==
    IF k > Len(values) THEN <<>> ELSE TableLine(values[k]) \o RowsFrom(values, k + 1)

\* what one worksheet adds to content
WorksheetMarkdown(worksheet) ==
    <<35, 35, 32>> \o worksheet.title \o <<10, 10>>
    \o (IF worksheet.values = <<>>
        THEN EMPTY_SHEET \o <<10, 10>>
        ELSE TableLine(worksheet.values[1]) \o SeparatorLine(Len(worksheet.values[1]))
             \o RowsFrom(worksheet.values, 2) \o <<10, 10>>)

RECURSIVE SheetFrom(_, _)
SheetFrom(worksheets, k) ==
    IF k > Len(worksheets) THEN <<>>
    ELSE WorksheetMarkdown(worksheets[k]) \o SheetFrom(worksheets, k + 1)

sheet_to_markdown(sheet) == SheetFrom(sheet.worksheets, 1)

(***************************************************************************)
(* utils.py: file names and files                                          *)
(***************************************************************************)
DOCS_DIR == "data/docs"
SHEETS_DIR == "data/sheets"
ORIGINAL_DOCS_DIR == "data/docs_original"

\* a faulty version: the directory of the originals is not created
create_directories_without_original(ds) == ds \cup {DOCS_DIR, SHEETS_DIR}

\* os.makedirs(d, exist_ok=True) for the three directories
create_directories(ds) == ds \cup {DOCS_DIR, SHEETS_DIR, ORIGINAL_DOCS_DIR}

\* t.strip('-')
StripHyphens(t) ==
    LET keep == {j \in 1..Len(t) : t[j] # 45}
    IN  IF keep = {} THEN <<>> ELSE Slice(t, Least(keep), Greatest(keep))

\* slugify() of the python-slugify package, for a title of ASCII letters, digits,
\* spaces and punctuation: lower case, every run of other characters becomes
\* one hyphen, no hyphen at either end
slugify(t) ==
    StripHyphens(re_sub(<<Plus(NotIn((48..57) \cup (97..122)))>>,
                        [pre |-> <<45>>, grp |-> FALSE, post |-> <<>>],
                        [j \in 1..Len(t) |-> Lower(t[j])], NOFLAGS))

\* re.sub(r'\[.*?\]', '', title).strip(), then slugify
slugify_filename(t) ==
    slugify(Strip(re_sub(<<Lit(<<91>>), LazyStar(Dot), Lit(<<93>>)>>, EMPTY, t, NOFLAGS)))

\* os.path.join(directory, filename)
FilePath(directory, fname) == <<directory, fname>>

\* a faulty save: every file goes to DOCS_DIR
save_markdown_flat(file_content, fname, directory, fs, owner) ==
    [p \in DOMAIN fs \cup {FilePath(DOCS_DIR, fname)} |->
        IF p = FilePath(DOCS_DIR, fname)
        THEN [content |-> file_content, owner |-> owner]
        ELSE fs[p]]

\* the file system after open(filepath, 'w') and file.write(content); owner
\* is the item of the batch that wrote the file
save_markdown(file_content, fname, directory, fs, owner) ==
    [p \in DOMAIN fs \cup {FilePath(directory, fname)} |->
        IF p = FilePath(directory, fname)
        THEN [content |-> file_content, owner |-> owner]
        ELSE fs[p]]

(***************************************************************************)
(* Values of the variables a specification does not use                    *)
(***************************************************************************)
BatchIdle ==
    /\ kind = NONE /\ document_ids = <<>> /\ cleaning_level = NONE
    /\ save_original = TRUE /\ pos = 0 /\ pc = "idle" /\ service = NONE
    /\ document = NONE /\ title = <<>> /\ content = <<>>
    /\ original_content = <<>> /\ clean_content = <<>> /\ filename = <<>>
    /\ results = <<>> /\ dirs = {} /\ files = <<>> /\ exc = NONE /\ outcome = <<>>

CleanIdle ==
    /\ text = <<>> /\ level = NONE /\ functions_to_apply = <<>> /\ fidx = 0
    /\ clean_text = <<>> /\ cpc = "idle" /\ placeholder = NONE /\ table = NONE
    /\ blocks = NONE

(***************************************************************************)
(* apply_cleaning, one statement at a time                                 *)
(***************************************************************************)
\* the most fragments an input text is put together from
MaxFragments == 2

\* pieces of documents: each holds what one cleaning step looks for
Fragments == {
    <<1040, 1074, 1090, 1086, 1088, 58, 32, 1041, 50, 52, 10>>,
    <<1058, 1077, 1088, 1084, 1080, 1085, 1099, 58, 10, 65, 10, 10, 66>>,
    <<1047, 1072, 1076, 1072, 1095, 1072, 58, 32, 120, 10, 10>>,
    <<104, 116, 116, 112, 58, 47, 47, 116, 46, 109, 101, 47, 97, 41, 32>>,
    <<91, 1089, 1084, 46, 32, 1087, 93>>,
    <<10, 124, 32, 97, 32, 124, 10, 124, 32, 45, 45, 45, 32, 124, 10, 124, 32, 32, 124, 10,
      124, 32, 32, 124, 10>>,
    <<95, 95, 97, 95, 95>>,
    <<97, 32, 160, 98>> }

RECURSIVE Texts(_)
Texts(k) ==
    IF k = 0 THEN {<<>>}
    ELSE Texts(k - 1) \cup {a \o f : a \in Texts(k - 1), f \in Fragments}

\* the level names tried: the three of CLEANING_LEVELS and two it does not hold
LevelNames == {"low", "medium", "high", "HIGH", ""}

InitClean ==
    /\ BatchIdle /\ stats = NONE /\ placeholder = NONE /\ table = NONE
    /\ blocks = NONE
    /\ text \in Texts(MaxFragments)
    /\ level \in LevelNames
    /\ functions_to_apply = <<>> /\ fidx = 0 /\ clean_text = <<>>
    /\ cpc = "start"

\* clean_text = text; functions_to_apply = CLEANING_LEVELS.get(...)
ResolveLevel ==
    /\ cpc = "start"
    /\ clean_text' = text
    /\ functions_to_apply' = LevelFunctions(level)
    /\ fidx' = 1
    /\ cpc' = "loop"
    /\ UNCHANGED <<batchVars, stats, placeholder, table, blocks, text, level>>

\* one iteration of the for loop over functions_to_apply
ApplyFunction ==
    /\ cpc = "loop" /\ fidx <= Len(functions_to_apply)
    /\ clean_text' = ApplyOne(functions_to_apply[fidx], clean_text)
    /\ fidx' = fidx + 1
    /\ UNCHANGED <<batchVars, stats, placeholder, table, blocks, text, level, functions_to_apply, cpc>>

\* clean_text = standardize_placeholders(clean_text)
StandardizePlaceholders ==
    /\ cpc = "loop" /\ fidx > Len(functions_to_apply)
    /\ clean_text' = standardize_placeholders(clean_text)
    /\ cpc' = "formatting"
    /\ UNCHANGED <<batchVars, stats, placeholder, table, blocks, text, level, functions_to_apply, fidx>>

\* clean_text = clean_formatting_artifacts(clean_text); return clean_text
CleanFormattingArtifacts ==
    /\ cpc = "formatting"
    /\ clean_text' = clean_formatting_artifacts(clean_text)
    /\ cpc' = "done"
    /\ UNCHANGED <<batchVars, stats, placeholder, table, blocks, text, level, functions_to_apply, fidx>>

NextClean ==
    \/ ResolveLevel
    \/ ApplyFunction
    \/ StandardizePlaceholders
    \/ CleanFormattingArtifacts

SpecClean == InitClean /\ [][NextClean]_vars

\* C4: for a level name that is not low, medium or high, apply_cleaning ends
\* without an error and returns the text apply_cleaning returns for "medium".
UnknownLevelIsMedium ==
    (cpc = "done" /\ level \notin {"low", "medium", "high"})
        => clean_text = apply_cleaning(text, "medium")

\* an unknown level has cleaned a text that low and medium clean differently
UnknownLevelCleaned ==
    /\ cpc = "done" /\ level = "HIGH"
    /\ clean_text # text
    /\ apply_cleaning(text, "low") # apply_cleaning(text, "medium")

\* C5: the result is the category functions of CLEANING_LEVELS[L], each applied
\* to the output of the one before it and in list order, then
\* standardize_placeholders, then clean_formatting_artifacts; an unrecognized
\* level gets the two final passes too (after the functions of medium).
OrderedComposition ==
    cpc = "done" =>
        clean_text = clean_formatting_artifacts(standardize_placeholders(
            CASE level = "low" ->
                   remove_terms_section(clean_metadata(text))
              [] level = "high" ->
                   clean_empty_tables(clean_internal_instructions(
                   clean_crm_references(clean_links(clean_technical_intros(
                   remove_terms_section(clean_metadata(text)))))))
              [] OTHER ->
                   clean_links(clean_technical_intros(
                   remove_terms_section(clean_metadata(text))))))

\* level high has finished on a text that two of its functions and a final
\* pass each change
ComposedHigh ==
    /\ cpc = "done" /\ level = "high"
    /\ clean_metadata(text) # text
    /\ clean_links(text) # text
    /\ clean_formatting_artifacts(text) # text
    /\ clean_text # text

\* C8: cleaning a cleaned text again, at the same level, changes nothing, and
\* clean_formatting_artifacts leaves its own output unchanged.
CleaningIdempotent ==
    cpc = "done" =>
        /\ apply_cleaning(clean_text, level) = clean_text
        /\ clean_formatting_artifacts(clean_text) = clean_text

(***************************************************************************)
(* standardize_placeholders, one substitution at a time                    *)
(***************************************************************************)
\* the longest placeholder name
MaxNameLen == 3

\* a name starts and ends with a letter; inside it has letters, underscores
\* (client_name) and spaces
RECURSIVE Inner(_)
Inner(k) ==
    IF k = 0 THEN {<<>>} ELSE {<<c>> \o w : c \in {97, 95, 32}, w \in Inner(k - 1)}

PlaceholderNames ==
    {<<a>> : a \in {97, 98}}
    \cup {<<a>> \o w \o <<b>> : a \in {97, 98}, b \in {97, 98},
                               w \in UNION {Inner(k) : k \in 0..MaxNameLen - 2}}

Spellings == {"double", "triple", "bracket"}

\* __name__, ___name___, [ВСТАВКА: name]
Spelled(spelling, name) ==
    CASE spelling = "double" -> <<95, 95>> \o name \o <<95, 95>>
      [] spelling = "triple" -> <<95, 95, 95>> \o name \o <<95, 95, 95>>
      [] spelling = "bracket" ->
           <<91, 1042, 1057, 1058, 1040, 1042, 1050, 1040, 58, 32>> \o name \o <<93>>

InitPlaceholders ==
    /\ BatchIdle /\ stats = NONE /\ table = NONE /\ blocks = NONE
    /\ placeholder \in [name : PlaceholderNames, spelling : Spellings]
    /\ text = Spelled(placeholder.spelling, placeholder.name)
    /\ level = NONE /\ functions_to_apply = <<>> /\ fidx = 0
    /\ clean_text = text
    /\ cpc = "double"

\* text = re.sub(r'__([^_]+)__', r'{{{\1}}}', text)
SubstituteDouble ==
    /\ cpc = "double"
    /\ clean_text' = StandardizeDouble(clean_text)
    /\ cpc' = "triple"
    /\ UNCHANGED <<batchVars, stats, placeholder, table, blocks, text, level, functions_to_apply, fidx>>

\* text = re.sub(r'___(.*?)___', r'{{{\1}}}', text)
SubstituteTriple ==
    /\ cpc = "triple"
    /\ clean_text' = StandardizeTriple(clean_text)
    /\ cpc' = "bracket"
    /\ UNCHANGED <<batchVars, stats, placeholder, table, blocks, text, level, functions_to_apply, fidx>>

\* text = re.sub(r'\[ВСТАВКА:\s*([^\]]+)\]', r'{{{\1}}}', text); return text
SubstituteBracket ==
    /\ cpc = "bracket"
    /\ clean_text' = StandardizeBracket(clean_text)
    /\ cpc' = "standardized"
    /\ UNCHANGED <<batchVars, stats, placeholder, table, blocks, text, level, functions_to_apply, fidx>>

NextPlaceholders ==
    \/ SubstituteDouble
    \/ SubstituteTriple
    \/ SubstituteBracket

SpecPlaceholders == InitPlaceholders /\ [][NextPlaceholders]_vars

\* C6: each of the three spellings of a placeholder, whatever its name, is
\* rewritten to exactly {{{name}}}.
PlaceholderNormalized ==
    cpc = "standardized" =>
        clean_text = <<123, 123, 123>> \o placeholder.name \o <<125, 125, 125>>

(***************************************************************************)
(* clean_empty_tables on a table of a converted document                   *)
(***************************************************************************)
\* the most columns and the most data rows of a table
MaxCols == 2
MaxRows == 2

\* a cell is empty or holds a letter
CellTexts == {<<>>, <<120>>}

\* header row and data rows, each a row of cell texts
Tables ==
    UNION {[1..r + 1 -> [1..c -> CellTexts]] : r \in 1..MaxRows, c \in 1..MaxCols}

\* a paragraph with one text run
Paragraph(t) == [paragraph |-> [elements |-> <<[textRun |-> [content |-> t]]>>]]

\* the Google Docs table with the given cell texts
TableItem(cells) ==
    [table |-> [tableRows |->
        [i \in 1..Len(cells) |-> [tableCells |->
            [j \in 1..Len(cells[i]) |-> [content |-> <<Paragraph(cells[i][j])>>]]]]]]

\* a document: one paragraph, then the table
TableDocument(cells) ==
    [title |-> <<84>>, body |-> [content |-> <<Paragraph(<<120>>), TableItem(cells)>>]]

TotalCells(cells) == Len(cells) * Len(cells[1])

EmptyCells(cells) ==
    Cardinality({<<i, j>> \in (1..Len(cells)) \X (1..Len(cells[1])) :
                    \A k \in 1..Len(cells[i][j]) : cells[i][j][k] \in WHITESPACE})

InitTables ==
    /\ BatchIdle /\ stats = NONE /\ placeholder = NONE /\ blocks = NONE
    /\ table \in Tables
    /\ text = <<>> /\ level = NONE /\ functions_to_apply = <<>> /\ fidx = 0
    /\ clean_text = <<>>
    /\ cpc = "convert"

\* title, content = gdoc_to_markdown(document)
ConvertTable ==
    /\ cpc = "convert"
    /\ text' = gdoc_to_markdown(TableDocument(table))[2]
    /\ cpc' = "tables"
    /\ UNCHANGED <<batchVars, stats, placeholder, table, blocks, level, functions_to_apply, fidx, clean_text>>

\* clean_empty_tables(text)
CleanEmptyTables ==
    /\ cpc = "tables"
    /\ clean_text' = clean_empty_tables(text)
    /\ cpc' = "cleaned"
    /\ UNCHANGED <<batchVars, stats, placeholder, table, blocks, level, functions_to_apply, fidx, text>>

NextTables ==
    \/ ConvertTable
    \/ CleanEmptyTables

SpecTables == InitTables /\ [][NextTables]_vars

\* C7: the table block is deleted exactly when more than 70% of its cells
\* hold only whitespace, whatever its number of columns.
TableDeletedIffMostlyEmpty ==
    cpc = "cleaned" =>
        ((clean_text # text)
            <=> (EmptyCells(table) * 100 > EMPTY_TABLE_THRESHOLD * TotalCells(table)))

(***************************************************************************)
(* get_cleaning_stats on a pair of texts                                   *)
(***************************************************************************)
\* the longest text of the range of lengths
MaxLen == 8

\* the lengths tried: a range, and the 100 and 40 of the documented example
Lengths == (0..MaxLen) \cup {40, 100}

TextOfLength(n) == [j \in 1..n |-> 97]

InitStats ==
    /\ BatchIdle /\ stats = NONE /\ placeholder = NONE /\ table = NONE
    /\ blocks = NONE
    /\ text \in {TextOfLength(n) : n \in Lengths}
    /\ clean_text \in {TextOfLength(n) : n \in Lengths}
    /\ level = NONE /\ functions_to_apply = <<>> /\ fidx = 0
    /\ cpc = "stats"

\* stats = get_cleaning_stats(original_content, clean_content)
GetCleaningStats ==
    /\ cpc = "stats"
    /\ stats' = get_cleaning_stats(text, clean_text)
    /\ cpc' = "counted"
    /\ UNCHANGED <<batchVars, placeholder, table, blocks, text, level, functions_to_apply, fidx, clean_text>>

NextStats == GetCleaningStats

SpecStats == InitStats /\ [][NextStats]_vars

\* the sizes and removed_chars of C10
SizesCounted ==
    /\ stats.original_size = Len(text)
    /\ stats.cleaned_size = Len(clean_text)
    /\ stats.removed_chars = stats.original_size - stats.cleaned_size

\* C10 as stated: removed_percent is removed_chars / original_size * 100, and 0
\* for an empty original (removed_percent is held in hundredths).
StatsExact ==
    cpc = "counted" =>
        /\ SizesCounted
        /\ stats.original_size > 0 =>
               stats.removed_percent * stats.original_size = stats.removed_chars * 10000
        /\ stats.original_size = 0 => stats.removed_percent = 0

\* C10 with the rounding: removed_percent is removed_chars / original_size * 100
\* rounded to two decimal places, no further than half a hundredth from it.
StatsRounded ==
    cpc = "counted" =>
        /\ SizesCounted
        /\ stats.original_size > 0 =>
               LET d == stats.removed_percent * stats.original_size
                            - stats.removed_chars * 10000
               IN  2 * d <= stats.original_size /\ -2 * d <= stats.original_size
        /\ stats.original_size = 0 => stats.removed_percent = 0

\* 3 characters cleaned to 2: 33.33 percent, and 100 cleaned to 40: 60.0
StatsRoundedSeen ==
    /\ cpc = "counted"
    /\ stats.original_size = 3 /\ stats.cleaned_size = 2
    /\ stats.removed_percent = 3333

(***************************************************************************)
(* The batch entry points: main and parse_doc / parse_sheet                *)
(***************************************************************************)
\* the longest list of identifiers given to main
MaxIds == 2

Ids == {"d1", "d2", "d3"}

\* a paragraph with a namedStyleType; an element that is no text run comes first
StyledParagraph(style, t) ==
    [paragraph |-> [elements |-> <<[inlineObjectElement |-> NONE],
                                   [textRun |-> [content |-> t]]>>,
                    paragraphStyle |-> [namedStyleType |-> style]]]

\* the documents of the remote service: "Plan [v1]" and "Plan" give the same
\* file name, the third document has no title
RemoteDocs ==
    [d1 |-> [title |-> <<80, 108, 97, 110, 32, 91, 118, 49, 93>>,
             body |-> [content |-> <<StyledParagraph("HEADING_1", <<65, 10>>),
                                     Paragraph(<<1040, 1074, 1090, 1086, 1088, 58, 32, 1041, 10>>)>>]],
     d2 |-> [title |-> <<80, 108, 97, 110>>,
             body |-> [content |-> <<StyledParagraph("NORMAL_TEXT", <<120, 10>>),
                                     TableItem(<<<<<<97>>>>, <<<<32>>>>>>)>>]],
     d3 |-> [body |-> [content |-> <<Paragraph(<<95, 95, 97, 95, 95, 10>>)>>]]]

\* the spreadsheets of the remote service
RemoteSheets ==
    [d1 |-> [title |-> <<80, 108, 97, 110, 32, 91, 118, 49, 93>>,
             worksheets |-> <<[title |-> <<83>>,
                               values |-> <<<<<<97>>, <<98>>>>, <<<<49>>, <<>>>>>>]>>],
     d2 |-> [title |-> <<80, 108, 97, 110>>,
             worksheets |-> <<[title |-> <<69>>, values |-> <<>>]>>],
     d3 |-> [title |-> <<81, 38, 65>>,
             worksheets |-> <<[title |-> <<83>>, values |-> <<<<<<1040, 1074, 1090, 1086, 1088, 58, 32, 1041>>>>>>]>>]]

RECURSIVE IdLists(_)
IdLists(k) ==
    IF k = 0 THEN {<<>>}
    ELSE IdLists(k - 1) \cup {Append(l, d) : l \in IdLists(k - 1), d \in Ids}

\* what the request of get_document / get_sheet can end with: the document, an
\* HTTP error status (not found, no permission: googleapiclient's HttpError),
\* a transport failure (network) or a failed token refresh (authentication)
FetchOutcomes == {"ok", "HttpError", "TransportError", "RefreshError"}

FetchErrors == FetchOutcomes \ {"ok"}

\* what open(filepath, 'w') and file.write(content) can end with
WriteOutcomes == {"ok", "open_failed", "write_failed"}

\* the lengths a write that fails under way can leave in the file, two of them
PartialLengths(file_content) == {0, Len(file_content) \div 2}

\* the directory of the cleaned copy: save_original_and_clean writes to
\* DOCS_DIR, parse_sheet without save_original to SHEETS_DIR
CleanDirectory ==
    IF save_original \/ kind = "doc" THEN DOCS_DIR ELSE SHEETS_DIR

Init ==
    /\ CleanIdle /\ stats = NONE
    /\ kind \in {"doc", "sheet"}
    /\ document_ids \in IdLists(MaxIds)
    /\ cleaning_level \in {"medium", "high"}
    /\ save_original \in BOOLEAN
    /\ pos = 1 /\ pc = "main"
    /\ service = NONE /\ document = NONE /\ title = <<>> /\ content = <<>>
    /\ original_content = <<>> /\ clean_content = <<>> /\ filename = <<>>
    /\ results = <<>> /\ dirs = {} /\ files = <<>> /\ exc = NONE /\ outcome = <<>>

\* how the item at pos ended, for the history
Ended(status) ==
    Append(outcome, [status |-> status, filename |-> filename,
                     original |-> original_content, cleaned |-> clean_content])

\* parse_doc returns: its local variables are gone
LocalsGone ==
    /\ service' = NONE /\ document' = NONE /\ title' = <<>> /\ content' = <<>>
    /\ original_content' = <<>> /\ clean_content' = <<>> /\ filename' = <<>>
    /\ stats' = NONE

\* return None, None; main prints the failure and takes the next identifier
SkipItem(status) ==
    /\ outcome' = Ended(status)
    /\ pos' = pos + 1
    /\ pc' = "main"
    /\ LocalsGone
    /\ UNCHANGED <<kind, document_ids, cleaning_level, save_original, results,
                   dirs, files, exc, cleanVars>>

\* an exception nothing catches leaves parse_doc and main
Propagate(e, status, fs) ==
    /\ outcome' = Ended(status)
    /\ exc' = e
    /\ pc' = "raised"
    /\ files' = fs
    /\ UNCHANGED <<kind, document_ids, cleaning_level, save_original, pos, service,
                   document, title, content, original_content, clean_content,
                   stats, filename, results, dirs, cleanVars>>

\* for doc_id in document_ids: parse_doc(doc_id, ...): create_directories()
CreateDirectories ==
    /\ pc = "main" /\ pos <= Len(document_ids)
    /\ dirs' = create_directories(dirs)
    /\ pc' = "authenticate"
    /\ UNCHANGED <<kind, document_ids, cleaning_level, save_original, pos, service,
                   document, title, content, original_content, clean_content,
                   stats, filename, results, files, exc, outcome, cleanVars>>

\* service = authenticate_docs(); if not service: return None, None
Authenticate ==
    /\ pc = "authenticate"
    /\ \E authenticated \in BOOLEAN :
          IF authenticated
          THEN /\ service' = "service"
               /\ pc' = "fetch"
               /\ UNCHANGED <<kind, document_ids, cleaning_level, save_original, pos,
                              document, title, content, original_content,
                              clean_content, stats, filename, results, dirs, files,
                              exc, outcome, cleanVars>>
          ELSE SkipItem("auth_failed")

\* document = get_document(service, document_id); if not document: return None, None.
\* get_document catches HttpError, get_sheet catches Exception
Fetch ==
    /\ pc = "fetch"
    /\ \E r \in FetchOutcomes :
          IF r = "ok"
          THEN /\ document' = (IF kind = "doc" THEN RemoteDocs[document_ids[pos]]
                               ELSE RemoteSheets[document_ids[pos]])
               /\ pc' = "convert"
               /\ UNCHANGED <<kind, document_ids, cleaning_level, save_original, pos,
                              service, title, content, original_content,
                              clean_content, stats, filename, results, dirs, files,
                              exc, outcome, cleanVars>>
          ELSE IF kind = "sheet" \/ r = "HttpError"
          THEN SkipItem("fetch_failed")
          ELSE Propagate(r, "fetch_raised", files)

\* title, content = gdoc_to_markdown(document)
ConvertDocument ==
    /\ pc = "convert" /\ kind = "doc"
    /\ \E converted \in {gdoc_to_markdown(document)} :
          title' = converted[1] /\ content' = converted[2]
    /\ pc' = "format"
    /\ UNCHANGED <<kind, document_ids, cleaning_level, save_original, pos, service,
                   document, original_content, clean_content, stats, filename,
                   results, dirs, files, exc, outcome, cleanVars>>

\* title = extract_sheet_title(sheet); content = sheet_to_markdown(sheet): the
\* requests of sheet.worksheets() and get_all_values() are in no try block
ConvertSheet ==
    /\ pc = "convert" /\ kind = "sheet"
    /\ \E r \in {"ok", "TransportError"} :
          IF r = "ok"
          THEN /\ title' = extract_sheet_title(document)
               /\ content' = sheet_to_markdown(document)
               /\ pc' = "format"
               /\ UNCHANGED <<kind, document_ids, cleaning_level, save_original, pos,
                              service, document, original_content, clean_content,
                              stats, filename, results, dirs, files, exc, outcome,
                              cleanVars>>
          ELSE Propagate(r, "fetch_raised", files)

\* original_content, clean_content = format_as_markdown(title, content, cleaning_level)
FormatAsMarkdown ==
    /\ pc = "format"
    /\ \E formatted \in {format_as_markdown(title, content, cleaning_level)} :
          original_content' = formatted[1] /\ clean_content' = formatted[2]
    /\ pc' = "stats"
    /\ UNCHANGED <<kind, document_ids, cleaning_level, save_original, pos, service,
                   document, title, content, stats, filename, results, dirs, files,
                   exc, outcome, cleanVars>>

\* stats = get_cleaning_stats(original_content, clean_content)
ComputeStats ==
    /\ pc = "stats"
    /\ stats' = get_cleaning_stats(original_content, clean_content)
    /\ pc' = "filename"
    /\ UNCHANGED <<kind, document_ids, cleaning_level, save_original, pos, service,
                   document, title, content, original_content, clean_content,
                   filename, results, dirs, files, exc, outcome, cleanVars>>

\* filename = FILENAME_TEMPLATE.format(slugify_filename(title))
MakeFilename ==
    /\ pc = "filename"
    /\ filename' = FILENAME_TEMPLATE(slugify_filename(title))
    /\ pc' = IF save_original THEN "save_original" ELSE "save_clean"
    /\ UNCHANGED <<kind, document_ids, cleaning_level, save_original, pos, service,
                   document, title, content, original_content, clean_content,
                   stats, results, dirs, files, exc, outcome, cleanVars>>

\* one save_markdown(file_content, filename, directory) of the item at pos
WriteFile(file_content, directory, next_pc) ==
    /\ directory \in dirs
    /\ \E w \in WriteOutcomes :
          CASE w = "ok" ->
                 /\ files' = save_markdown(file_content, filename, directory, files, pos)
                 /\ pc' = next_pc
                 /\ UNCHANGED <<kind, document_ids, cleaning_level, save_original, pos,
                                service, document, title, content, original_content,
                                clean_content, stats, filename, results, dirs, exc,
                                outcome, cleanVars>>
            [] w = "open_failed" -> Propagate("OSError", "write_raised", files)
            [] w = "write_failed" ->
                 \E n \in PartialLengths(file_content) :
                    Propagate("OSError", "write_raised",
                              save_markdown(Slice(file_content, 1, n), filename,
                                            directory, files, pos))

\* save_original_and_clean: save_markdown(original_content, filename, ORIGINAL_DOCS_DIR)
SaveOriginal ==
    /\ pc = "save_original"
    /\ WriteFile(original_content, ORIGINAL_DOCS_DIR, "save_clean")

\* save_original_and_clean: save_markdown(clean_content, filename, DOCS_DIR);
\* without save_original: save_markdown(clean_content, filename, DOCS_DIR or SHEETS_DIR)
SaveClean ==
    /\ pc = "save_clean"
    /\ WriteFile(clean_content, CleanDirectory, "append")

\* a faulty loop: main takes the next identifier while the clean copy of
\* this one is still to be written
AppendResultEarly ==
    /\ pc = "save_clean"
    /\ results' = Append(results, [id |-> document_ids[pos],
                                   path |-> FilePath(CleanDirectory, filename),
                                   stats |-> stats])
    /\ outcome' = Ended("ok")
    /\ pos' = pos + 1
    /\ pc' = "main"
    /\ LocalsGone
    /\ UNCHANGED <<kind, document_ids, cleaning_level, save_original, dirs, files,
                   exc, cleanVars>>

\* if clean_path: results.append({"document_id": doc_id, "path": ..., "stats": ...})
AppendResult ==
    /\ pc = "append"
    /\ results' = Append(results, [id |-> document_ids[pos],
                                   path |-> FilePath(CleanDirectory, filename),
                                   stats |-> stats])
    /\ outcome' = Ended("ok")
    /\ pos' = pos + 1
    /\ pc' = "main"
    /\ LocalsGone
    /\ UNCHANGED <<kind, document_ids, cleaning_level, save_original, dirs, files,
                   exc, cleanVars>>

\* return results
Return ==
    /\ pc = "main" /\ pos > Len(document_ids)
    /\ pc' = "returned"
    /\ UNCHANGED <<kind, document_ids, cleaning_level, save_original, pos, service,
                   document, title, content, original_content, clean_content,
                   stats, filename, results, dirs, files, exc, outcome, cleanVars>>

Next ==
    \/ CreateDirectories
    \/ Authenticate
    \/ Fetch
    \/ ConvertDocument
    \/ ConvertSheet
    \/ FormatAsMarkdown
    \/ ComputeStats
    \/ MakeFilename
    \/ SaveOriginal
    \/ SaveClean
    \/ AppendResult
    \/ Return

Spec == Init /\ [][Next]_vars

\* main has ended: it returned results, or an exception left it
Finished == pc \in {"returned", "raised"}

\* the identifiers of the entries of results
ResultIds == [i \in 1..Len(results) |-> results[i].id]

\* the identifiers among the first k whose item was fetched and processed
RECURSIVE SucceededIds(_)
SucceededIds(k) ==
    IF k = 0 THEN <<>>
    ELSE SucceededIds(k - 1)
         \o (IF k <= Len(outcome) /\ outcome[k].status = "ok"
             THEN <<document_ids[k]>> ELSE <<>>)

\* C1: when some fetches fail (and no write does), main returns a list with
\* exactly one entry for each identifier whose fetch succeeded, in input order.
ResultsAreFetchedInOrder ==
    (Finished /\ \A i \in 1..Len(outcome) : outcome[i].status # "write_raised")
        => /\ pc = "returned"
           /\ ResultIds = SucceededIds(Len(document_ids))

\* C2: a fetch failure of any kind is a skip of that item: it never leaves
\* the batch loop.
FetchFailureNeverPropagates ==
    /\ \A i \in 1..Len(outcome) : outcome[i].status # "fetch_raised"
    /\ pc = "raised" => exc \notin FetchErrors

\* C3: no file written for an item that ended as a failure exists, in any
\* output directory.
NoFileOfFailedItem ==
    \A p \in DOMAIN files :
        files[p].owner <= Len(outcome) => outcome[files[p].owner].status = "ok"

\* the file dir/fname exists and holds file_content
Holds(directory, fname, file_content) ==
    /\ FilePath(directory, fname) \in DOMAIN files
    /\ files[FilePath(directory, fname)].content = file_content

\* the number of files in a directory
FilesIn(directory) == Cardinality({p \in DOMAIN files : p[1] = directory})

\* the items processed successfully
Succeeded == {i \in 1..Len(outcome) : outcome[i].status = "ok"}

\* C9 as stated: after a batch run that returned, every successfully processed item has its
\* original text in the original tree and its cleaned text in the cleaned tree,
\* under the same name, and each tree holds one file per such item.
LayoutPerItem ==
    pc = "returned" =>
        /\ \A i \in Succeeded :
              /\ Holds(ORIGINAL_DOCS_DIR, outcome[i].filename, outcome[i].original)
              /\ \E d \in {DOCS_DIR, SHEETS_DIR} :
                    Holds(d, outcome[i].filename, outcome[i].cleaned)
        /\ FilesIn(ORIGINAL_DOCS_DIR) = Cardinality(Succeeded)
        /\ FilesIn(DOCS_DIR) + FilesIn(SHEETS_DIR) = Cardinality(Succeeded)

\* the file dir/fname exists, was written by item i or a later one, and holds
\* file_content when item i wrote it last
HoldsSince(directory, fname, file_content, i) ==
    /\ FilePath(directory, fname) \in DOMAIN files
    /\ files[FilePath(directory, fname)].owner >= i
    /\ files[FilePath(directory, fname)].owner = i
           => files[FilePath(directory, fname)].content = file_content

\* C9, amended: once an item is saved, the cleaned tree (data/docs; data/sheets
\* for a spreadsheet saved without its original) holds its cleaned text under
\* the template name of its title and, with save_original, the original tree
\* holds its original text under the same name; without save_original no
\* original is written; a later item with the same file name replaces the
\* files, so a tree holds one file per file name, not per item.
PersistedLayout ==
    /\ pc = "append" =>
          /\ filename = FILENAME_TEMPLATE(slugify_filename(title))
          /\ Holds(CleanDirectory, filename, clean_content)
          /\ save_original => Holds(ORIGINAL_DOCS_DIR, filename, original_content)
    /\ \A i \in Succeeded :
          /\ HoldsSince(CleanDirectory, outcome[i].filename, outcome[i].cleaned, i)
          /\ save_original =>
                HoldsSince(ORIGINAL_DOCS_DIR, outcome[i].filename, outcome[i].original, i)
    /\ ~save_original => FilesIn(ORIGINAL_DOCS_DIR) = 0
    /\ \A d \in {DOCS_DIR, SHEETS_DIR} \ {CleanDirectory} : FilesIn(d) = 0
    /\ Finished /\ (\A i \in 1..Len(outcome) : outcome[i].status # "write_raised")
          => FilesIn(CleanDirectory)
                = Cardinality({outcome[i].filename : i \in Succeeded})

\* two documents with the same file name were both saved, originals included,
\* and one file is left in each tree
SameNameSaved ==
    /\ pc = "returned" /\ kind = "doc" /\ save_original
    /\ document_ids = <<"d1", "d2">>
    /\ Len(results) = 2
    /\ results[1].path = results[2].path
    /\ FilesIn(ORIGINAL_DOCS_DIR) = 1 /\ FilesIn(DOCS_DIR) = 1

(***************************************************************************)
(* gdoc_to_markdown, one item of body.content at a time                    *)
(***************************************************************************)
MaxBlocks == 2

\* the runs of a paragraph: one text run, or a text run, an inline object
\* and a second text run
RunLists ==
    {<<[textual |-> TRUE, run |-> <<84>>]>>,
     <<[textual |-> TRUE, run |-> <<97, 32>>], [textual |-> FALSE, run |-> <<>>],
       [textual |-> TRUE, run |-> <<98, 10>>]>>}

\* namedStyleType of a paragraph; NONE: the paragraph has no paragraphStyle
Styles == {"HEADING_1", "HEADING_2", "HEADING_3", "NORMAL_TEXT", NONE}

\* the top-level blocks: paragraphs, a table, a section break
Blocks ==
    [type : {"paragraph"}, style : Styles, runs : RunLists]
    \cup [type : {"table", "sectionBreak"}, style : {NONE}, runs : {<<>>}]

\* the cells of the table block
BlockTable == <<<<<<72>>, <<32, 104>>>>, <<<<49>>, <<>>>>>>

\* the element of paragraph.elements a run is
Element(r) ==
    IF r.textual THEN [textRun |-> [content |-> r.run]]
    ELSE [inlineObjectElement |-> [inlineObjectId |-> <<>>]]

\* the item of body.content a block is
BlockItem(b) ==
    CASE b.type = "paragraph" ->
            [paragraph |->
                IF b.style = NONE
                THEN [elements |-> [k \in 1..Len(b.runs) |-> Element(b.runs[k])]]
                ELSE [elements |-> [k \in 1..Len(b.runs) |-> Element(b.runs[k])],
                      paragraphStyle |-> [namedStyleType |-> b.style]]]
      [] b.type = "table" -> TableItem(BlockTable)
      [] OTHER -> [sectionBreak |-> NONE]

BlockDocument(bs) ==
    [title |-> <<84>>, body |-> [content |-> [k \in 1..Len(bs) |-> BlockItem(bs[k])]]]

InitConvert ==
    /\ kind = "doc" /\ document_ids = <<>> /\ cleaning_level = NONE
    /\ save_original = TRUE /\ pos = 0 /\ pc = "idle" /\ service = NONE
    /\ original_content = <<>> /\ clean_content = <<>> /\ filename = <<>>
    /\ results = <<>> /\ dirs = {} /\ files = <<>> /\ exc = NONE /\ outcome = <<>>
    /\ stats = NONE /\ placeholder = NONE /\ table = NONE
    /\ text = <<>> /\ level = NONE /\ functions_to_apply = <<>> /\ clean_text = <<>>
    /\ blocks \in UNION {[1..n -> Blocks] : n \in 1..MaxBlocks}
    /\ document = BlockDocument(blocks)
    /\ title = <<>> /\ content = <<>> /\ fidx = 0 /\ cpc = "title"

\* title = extract_document_title(document); content = ""
ExtractTitle ==
    /\ cpc = "title"
    /\ title' = extract_document_title(document)
    /\ content' = <<>>
    /\ fidx' = 1
    /\ cpc' = "body"
    /\ UNCHANGED <<kind, document_ids, cleaning_level, save_original, pos, pc, service,
                   document, original_content, clean_content, filename, results,
                   dirs, files, exc, outcome, stats, placeholder, table, blocks,
                   text, level, functions_to_apply, clean_text>>

\* one pass of "for item in document.get('body', {}).get('content', [])"
ConvertItem ==
    /\ cpc = "body"
    /\ fidx <= Len(Get(Get(document, "body", <<>>), "content", <<>>))
    /\ content' = content \o ItemMarkdown(document.body.content[fidx])
    /\ fidx' = fidx + 1
    /\ UNCHANGED <<kind, document_ids, cleaning_level, save_original, pos, pc, service,
                   document, title, original_content, clean_content, filename, results,
                   dirs, files, exc, outcome, stats, placeholder, table, blocks,
                   text, level, functions_to_apply, clean_text, cpc>>

\* return title, content
ReturnMarkdown ==
    /\ cpc = "body"
    /\ fidx > Len(Get(Get(document, "body", <<>>), "content", <<>>))
    /\ cpc' = "converted"
    /\ UNCHANGED <<kind, document_ids, cleaning_level, save_original, pos, pc, service,
                   document, title, content, original_content, clean_content, filename,
                   results, dirs, files, exc, outcome, stats, placeholder, table, blocks,
                   text, level, functions_to_apply, clean_text, fidx>>

NextConvert == ExtractTitle \/ ConvertItem \/ ReturnMarkdown

SpecConvert == InitConvert /\ [][NextConvert]_vars

\* T: the text runs of a paragraph block, in order, the other elements left out
RECURSIVE RunText(_, _)
RunText(runs, k) ==
    IF k > Len(runs) THEN <<>>
    ELSE (IF runs[k].textual THEN runs[k].run ELSE <<>>) \o RunText(runs, k + 1)

\* what the block is to add to the Markdown
BlockMarkdown(b) ==
    CASE b.type = "paragraph" /\ b.style = "HEADING_1" ->
            <<35, 35, 32>> \o RunText(b.runs, 1) \o <<10, 10>>
      [] b.type = "paragraph" /\ b.style = "HEADING_2" ->
            <<35, 35, 35, 32>> \o RunText(b.runs, 1) \o <<10, 10>>
      [] b.type = "paragraph" /\ b.style = "HEADING_3" ->
            <<35, 35, 35, 35, 32>> \o RunText(b.runs, 1) \o <<10, 10>>
      [] b.type = "paragraph" /\ b.style \in {"NORMAL_TEXT", NONE} ->
            RunText(b.runs, 1) \o <<10, 10>>
      [] b.type = "table" ->
            <<124, 32, 72, 32, 124, 32, 104, 32, 124, 10,
              124, 32, 45, 45, 45, 32, 124, 32, 45, 45, 45, 32, 124, 10,
              124, 32, 49, 32, 124, 32, 32, 124, 10, 10, 10>>
      [] OTHER -> <<>>

RECURSIVE BlocksMarkdown(_, _)
BlocksMarkdown(bs, n) ==
    IF n = 0 THEN <<>> ELSE BlocksMarkdown(bs, n - 1) \o BlockMarkdown(bs[n])

\* C11: gdoc_to_markdown emits the blocks in document order: after each pass of
\* the loop the content is the Markdown of the blocks passed so far, in order,
\* where a paragraph with run text T gives "## T\n\n" for HEADING_1,
\* "### T\n\n" for HEADING_2, "#### T\n\n" for HEADING_3 and "T\n\n" for a body
\* paragraph, T being the text runs only, in order.
BlocksInOrder ==
    /\ cpc = "body" => content = BlocksMarkdown(blocks, fidx - 1)
    /\ cpc = "converted" => content = BlocksMarkdown(blocks, Len(blocks))

\* a level-2 heading with an inline object between its runs, then a body paragraph
HeadingThenBody ==
    /\ cpc = "converted"
    /\ Len(blocks) = 2
    /\ blocks[1].type = "paragraph" /\ blocks[1].style = "HEADING_2"
    /\ Len(blocks[1].runs) = 3
    /\ blocks[2].type = "paragraph" /\ blocks[2].style = "NORMAL_TEXT"
    /\ content = <<35, 35, 35, 32, 97, 32, 98, 10, 10, 10, 84, 10, 10>>

(***************************************************************************)
(* process_table, one row of tableRows at a time                           *)
(***************************************************************************)
MaxTableRows == 2

\* a cell text: whitespace, a core that neither starts nor ends with
\* whitespace, whitespace
Cell(lead, core, trail) == [lead |-> lead, core |-> core, trail |-> trail]

\* rows of two columns and of one column; Google Docs ends the text of a cell
\* with "\n"
RowSamples ==
    {<<Cell(<<>>, <<65>>, <<>>), Cell(<<>>, <<66>>, <<>>)>>,
     <<Cell(<<>>, <<49>>, <<>>), Cell(<<>>, <<50>>, <<>>)>>,
     <<Cell(<<32>>, <<120>>, <<32, 10>>), Cell(<<9>>, <<121, 32, 122>>, <<10>>)>>,
     <<Cell(<<>>, <<>>, <<10>>), Cell(<<160>>, <<>>, <<32>>)>>,
     <<Cell(<<>>, <<45, 45, 45>>, <<10>>), Cell(<<>>, <<>>, <<>>)>>,
     <<Cell(<<>>, <<72>>, <<10>>)>>,
     <<Cell(<<32, 32>>, <<118>>, <<>>)>>,
     <<Cell(<<>>, <<>>, <<>>)>>}

\* the tables: one to MaxTableRows rows with the same number of columns
RowTables ==
    {rows \in UNION {[1..n -> RowSamples] : n \in 1..MaxTableRows} :
        \A i \in 1..Len(rows) : Len(rows[i]) = Len(rows[1])}

\* the Google Docs table whose cells hold these texts
CellTable(rows) ==
    TableItem([i \in 1..Len(rows) |-> [j \in 1..Len(rows[i]) |->
        rows[i][j].lead \o rows[i][j].core \o rows[i][j].trail]]).table

InitRender ==
    /\ kind = "doc" /\ document_ids = <<>> /\ cleaning_level = NONE
    /\ save_original = TRUE /\ pos = 0 /\ pc = "idle" /\ service = NONE
    /\ title = <<>> /\ original_content = <<>> /\ clean_content = <<>>
    /\ filename = <<>> /\ results = <<>> /\ dirs = {} /\ files = <<>>
    /\ exc = NONE /\ outcome = <<>> /\ stats = NONE /\ placeholder = NONE
    /\ blocks = NONE /\ text = <<>> /\ level = NONE /\ functions_to_apply = <<>>
    /\ clean_text = <<>>
    /\ table \in RowTables
    /\ document = CellTable(table)
    /\ content = <<>> /\ fidx = 1 /\ cpc = "rows"

\* one pass of "for i, row in enumerate(table_rows)"; content is markdown_table
RenderRow ==
    /\ cpc = "rows"
    /\ fidx <= Len(Get(document, "tableRows", <<>>))
    /\ content' = content
            \o TableLine(RowContent(Get(document.tableRows[fidx], "tableCells", <<>>)))
            \o (IF fidx = 1
                THEN SeparatorLine(Len(Get(document.tableRows[fidx], "tableCells", <<>>)))
                ELSE <<>>)
    /\ fidx' = fidx + 1
    /\ UNCHANGED <<kind, document_ids, cleaning_level, save_original, pos, pc, service,
                   document, title, original_content, clean_content, filename, results,
                   dirs, files, exc, outcome, stats, placeholder, table, blocks,
                   text, level, functions_to_apply, clean_text, cpc>>

\* return markdown_table
ReturnTable ==
    /\ cpc = "rows"
    /\ fidx > Len(Get(document, "tableRows", <<>>))
    /\ cpc' = "rendered"
    /\ UNCHANGED <<kind, document_ids, cleaning_level, save_original, pos, pc, service,
                   document, title, content, original_content, clean_content, filename,
                   results, dirs, files, exc, outcome, stats, placeholder, table, blocks,
                   text, level, functions_to_apply, clean_text, fidx>>

NextRender == RenderRow \/ ReturnTable

SpecRender == InitRender /\ [][NextRender]_vars

\* " c1 | c2 | ... |" with the cores of the cells
RECURSIVE CoresFrom(_, _)
CoresFrom(cells, k) ==
    IF k > Len(cells) THEN <<>>
    ELSE <<32>> \o cells[k].core \o <<32, 124>> \o CoresFrom(cells, k + 1)

\* " --- |" once per column
RECURSIVE Dashes(_)
Dashes(n) == IF n = 0 THEN <<>> ELSE <<32, 45, 45, 45, 32, 124>> \o Dashes(n - 1)

\* the lines of the rendered table: the first row, the separator, the other rows
RenderedLine(rows, k) ==
    IF k = 1 THEN <<124>> \o CoresFrom(rows[1], 1) \o <<10>>
    ELSE IF k = 2 THEN <<124>> \o Dashes(Len(rows[1])) \o <<10>>
    ELSE <<124>> \o CoresFrom(rows[k - 1], 1) \o <<10>>

RECURSIVE RenderedLines(_, _)
RenderedLines(rows, n) ==
    IF n = 0 THEN <<>> ELSE RenderedLines(rows, n - 1) \o RenderedLine(rows, n)

\* C12: process_table renders each row as "| c1 | c2 | ... |" and a newline with
\* every cell trimmed of leading and trailing whitespace, and exactly one
\* separator row, immediately after the first row, with "---" once per column.
TableRendered ==
    cpc = "rendered" => content = RenderedLines(table, Len(table) + 1)

\* rows [["A","B"],["1","2"]] give "| A | B |\n| --- | --- |\n| 1 | 2 |\n"
ExampleRendered ==
    /\ cpc = "rendered"
    /\ table = <<<<Cell(<<>>, <<65>>, <<>>), Cell(<<>>, <<66>>, <<>>)>>,
                 <<Cell(<<>>, <<49>>, <<>>), Cell(<<>>, <<50>>, <<>>)>>>>
    /\ content = <<124, 32, 65, 32, 124, 32, 66, 32, 124, 10,
                   124, 32, 45, 45, 45, 32, 124, 32, 45, 45, 45, 32, 124, 10,
                   124, 32, 49, 32, 124, 32, 50, 32, 124, 10>>

(***************************************************************************)
(* The categories of the three levels                                      *)
(***************************************************************************)
\* the categories of a list
Categories(names) == {names[k] : k \in 1..Len(names)}

\* the place of a category in a list
Place(names, c) == CHOOSE k \in 1..Len(names) : names[k] = c

\* every category of the list a is in the list b, in the same relative order
ContainedInOrder(a, b) ==
    /\ Categories(a) \subseteq Categories(b)
    /\ \A i, j \in 1..Len(a) : i < j => Place(b, a[i]) < Place(b, a[j])

\* the categories apply_cleaning has applied so far
Applied ==
    {functions_to_apply[k] : k \in 1..(fidx - 1)} \cap CLEANING_FUNCTION_NAMES

\* C13: the list of low is contained in that of medium and that of medium in
\* that of high, in the same relative order; so a run for high applies every
\* category of medium, a run for medium every category of low and only
\* categories of high, and a run for low only categories of medium.
LevelsNested ==
    /\ ContainedInOrder(CLEANING_LEVELS.low, CLEANING_LEVELS.medium)
    /\ ContainedInOrder(CLEANING_LEVELS.medium, CLEANING_LEVELS.high)
    /\ cpc = "done" /\ level = "high" =>
            Categories(CLEANING_LEVELS.medium) \subseteq Applied
    /\ cpc = "done" /\ level = "medium" =>
            /\ Categories(CLEANING_LEVELS.low) \subseteq Applied
            /\ Applied \subseteq Categories(CLEANING_LEVELS.high)
    /\ cpc = "done" /\ level = "low" =>
            Applied \subseteq Categories(CLEANING_LEVELS.medium)

\* a run for high that has applied all seven categories
HighAppliedAll ==
    /\ cpc = "done" /\ level = "high"
    /\ Cardinality(Applied) = 7
    /\ clean_text # text

(***************************************************************************)
(* The order of the steps of a batch                                       *)
(***************************************************************************)
\* the step of an identifier a position belongs to: 1 fetch, 2 convert,
\* 3 clean, 4 persist; 0 between two identifiers
StepOf(p) ==
    CASE p \in {"authenticate", "fetch"} -> 1
      [] p = "convert" -> 2
      [] p \in {"format", "stats", "filename"} -> 3
      [] p \in {"save_original", "save_clean", "append"} -> 4
      [] OTHER -> 0

\* the files a step has written or rewritten
Written == {p \in DOMAIN files' : p \notin DOMAIN files \/ files'[p] # files[p]}

StepOrder ==
    \* within an identifier the steps go forward, one step at a time
    /\ (pos' = pos /\ pc' \notin {"raised", "returned"}) =>
            /\ StepOf(pc') >= StepOf(pc)
            /\ StepOf(pc') <= StepOf(pc) + 1
    \* each step does its own work only
    /\ pc' = "convert" => pc = "fetch"
    /\ (content' # content /\ content' # <<>>) => StepOf(pc) = 2
    /\ (clean_content' # clean_content /\ clean_content' # <<>>) =>
            (StepOf(pc) = 3 /\ pc' # "raised")
    /\ Written # {} =>
            /\ pc \in {"save_original", "save_clean"}
            /\ clean_content = format_as_markdown(title, content, cleaning_level)[2]
            /\ \A p \in Written : files'[p].owner = pos
    \* the next identifier is taken only when this one has ended: it was
    \* skipped at its fetch, or all its steps and writes are done
    /\ pos' # pos =>
            /\ pos' = pos + 1 /\ pc' = "main"
            /\ pc \in {"authenticate", "fetch", "append"}
            /\ Len(outcome') = pos
            /\ content' = <<>> /\ clean_content' = <<>>
    /\ Written = {} \/ pos' = pos
    \* the fetch of an identifier begins with every earlier identifier ended
    /\ StepOf(pc') = 1 =>
            Len(outcome') = pos' - 1 /\ content' = <<>> /\ clean_content' = <<>>

\* C14: in a batch the steps of each identifier happen in the order fetch,
\* convert, clean, persist, and every step of an identifier, its file writes
\* included, is over before the fetch of the next identifier begins; the steps
\* of two identifiers never interleave.
StepsInOrder == [][StepOrder]_vars

\* the second identifier is fetched after the first was persisted
SecondFetchAfterFirstSaved ==
    /\ pc = "fetch" /\ pos = 2
    /\ Len(outcome) = 1 /\ outcome[1].status = "ok"
    /\ \E p \in DOMAIN files : files[p].owner = 1 /\ files[p].content = outcome[1].cleaned
    /\ content = <<>>

(***************************************************************************)
(* Directories before files                                                *)
(***************************************************************************)
OutputDirectories == {DOCS_DIR, SHEETS_DIR, ORIGINAL_DOCS_DIR}

DirectoryOrder ==
    \* the processing of an item begins with create_directories, after which
    \* all output directories exist
    /\ (pc = "main" /\ pc' # "returned") =>
            /\ pc' = "authenticate" /\ pos' = pos
            /\ OutputDirectories \subseteq dirs'
            /\ files' = files
    \* a file is written only later in the processing of the same item, into a
    \* directory that exists
    /\ Written # {} =>
            /\ pc \in {"save_original", "save_clean"} /\ pos' = pos
            /\ OutputDirectories \subseteq dirs
            /\ \A p \in Written : p[1] \in dirs /\ files'[p].owner = pos
    \* create_directories on existing directories changes nothing, raises nothing
    /\ (pc = "main" /\ pc' # "returned" /\ OutputDirectories \subseteq dirs) =>
            /\ dirs' = dirs /\ files' = files
            /\ exc' = exc /\ pc' # "raised"
    /\ create_directories(create_directories(dirs)) = create_directories(dirs)
    /\ dirs \subseteq dirs'

\* C15: every file write of an item comes after the creation of all output
\* directories in the processing of the same item, and create_directories run
\* again on existing directories changes nothing and raises no error.
DirectoriesBeforeFiles == [][DirectoryOrder]_vars

\* the second item, its directories created a second time, has written its
\* original copy
SecondItemWritten ==
    /\ pos = 2 /\ pc = "save_clean" /\ save_original
    /\ OutputDirectories \subseteq dirs
    /\ \E p \in DOMAIN files : files[p].owner = 2 /\ p[1] = ORIGINAL_DOCS_DIR

(***************************************************************************)
(* clean_internal_instructions, one pattern at a time                      *)
(***************************************************************************)
MaxLines == 3

\* lines of a document: "a", "Смотреть таблицу 1", "x Смотреть таблицу",
\* "ВНИМАНИЕ! b", "[см. п] c", each ended by "\n"
InstructionLines ==
    {<<97, 10>>,
     <<1057, 1084, 1086, 1090, 1088, 1077, 1090, 1100, 32, 1090, 1072, 1073, 1083,
       1080, 1094, 1091, 32, 49, 10>>,
     <<120, 32, 1057, 1084, 1086, 1090, 1088, 1077, 1090, 1100, 32, 1090, 1072, 1073,
       1083, 1080, 1094, 1091, 10>>,
     <<1042, 1053, 1048, 1052, 1040, 1053, 1048, 1045, 33, 32, 98, 10>>,
     <<91, 1089, 1084, 46, 32, 1087, 93, 32, 99, 10>>}

RECURSIVE LineTexts(_)
LineTexts(k) ==
    IF k = 0 THEN {<<>>}
    ELSE LineTexts(k - 1) \cup {a \o l : a \in LineTexts(k - 1), l \in InstructionLines}

InitInstructions ==
    /\ BatchIdle /\ stats = NONE /\ placeholder = NONE /\ table = NONE
    /\ blocks = NONE
    /\ text \in LineTexts(MaxLines) \ {<<>>}
    /\ level = NONE /\ functions_to_apply = <<>>
    /\ clean_text = text /\ fidx = 1 /\ cpc = "patterns"

\* one pass of "for pattern in INTERNAL_INSTRUCTION_PATTERNS": text = re.sub(
\* pattern, '', text, flags=re.MULTILINE | re.DOTALL)
SubstituteInstruction ==
    /\ cpc = "patterns" /\ fidx <= Len(INTERNAL_INSTRUCTION_PATTERNS)
    /\ clean_text' = re_sub(INTERNAL_INSTRUCTION_PATTERNS[fidx], EMPTY, clean_text,
                            MULTILINE_DOTALL)
    /\ fidx' = fidx + 1
    /\ UNCHANGED <<batchVars, stats, placeholder, table, blocks, text, level,
                   functions_to_apply, cpc>>

\* return text
ReturnInstructions ==
    /\ cpc = "patterns" /\ fidx > Len(INTERNAL_INSTRUCTION_PATTERNS)
    /\ cpc' = "cleaned"
    /\ UNCHANGED <<batchVars, stats, placeholder, table, blocks, text, level,
                   functions_to_apply, fidx, clean_text>>

NextInstructions == SubstituteInstruction \/ ReturnInstructions

SpecInstructions == InitInstructions /\ [][NextInstructions]_vars

\* the text b ends with the text a
EndsWith(b, a) ==
    Len(a) <= Len(b) /\ SubSeq(b, Len(b) - Len(a) + 1, Len(b)) = a

\* the lines after the j-th character, a line end
LinesAfter(t, j) == SubSeq(t, j + 1, Len(t))

\* C16: a "Смотреть таблицу" directive goes only with the rest of its own line
\* and a "ВНИМАНИЕ!" banner only up to the end of its own line: the lines that
\* follow, when they hold nothing the category removes, are still there, at the
\* end of the cleaned text, unchanged.
FollowingLinesKept ==
    cpc = "cleaned" =>
        \A j \in 1..Len(text) :
            (text[j] = 10
                /\ clean_internal_instructions(LinesAfter(text, j)) = LinesAfter(text, j))
            => EndsWith(clean_text, LinesAfter(text, j))

(***************************************************************************)
(* What clean_formatting_artifacts leaves                                  *)
(***************************************************************************)
\* the text holds n or more times the character c in a row
HasRun(t, c, n) ==
    \E i \in 1..Len(t) : i + n - 1 <= Len(t) /\ \A k \in i..(i + n - 1) : t[k] = c

\* C17: the text apply_cleaning returns, the output of
\* clean_formatting_artifacts, has no three newlines in a row, no whitespace
\* at its start or end, no two spaces in a row and no non-breaking space.
FormattingArtifactsGone ==
    cpc = "done" =>
        /\ ~HasRun(clean_text, 10, 3)
        /\ clean_text # <<>> =>
                clean_text[1] \notin WHITESPACE /\ clean_text[Len(clean_text)] \notin WHITESPACE
        /\ ~HasRun(clean_text, 32, 2)
        /\ ~HasRun(clean_text, 160, 1)

====
